---- MODULE Spec2Model ----
(***************************************************************************)
(* Client-side state logic of the weather dashboard:                       *)
(*   - useFavorites  (hook; one private copy of the list per component that *)
(*                    calls it: App, WeatherCard, FavoritesList)            *)
(*   - App           (fetchWeather, loading / error / weather state, and    *)
(*                    the mounting of WeatherCard and FavoritesList)        *)
(*   - SearchBar     (debounced city search and its dropdown)               *)
(* Each action is one browser event (a click, a keystroke, a timer, a       *)
(* network response) together with the React render and effects it causes.  *)
(***************************************************************************)
EXTENDS Integers, Sequences, FiniteSets, TLC

\* ------------------------------------------------------------------ bounds
MaxFetches == 2        \* fetchWeather calls in flight at once
MaxInFlight == 2       \* searchCities calls in flight at once

\* --------------------------------------------------------------- constants
DefaultError == "Failed to fetch weather data"

Null == [null |-> TRUE]        \* JS null for an object-valued state
NullStr == "<null>"            \* JS null for a string-valued state
Undefined == "<undefined>"     \* a property that is absent

\* The cities the provider knows (CitySearchResult: name, country, state?;
\* state "" stands for an absent state).
Paris == [name |-> "Paris", country |-> "FR", state |-> ""]
Austin == [name |-> "Austin", country |-> "US", state |-> "TX"]
Tokyo == [name |-> "Tokyo", country |-> "JP", state |-> ""]
Cities == {Paris, Austin, Tokyo}

\* ------------------------------------------------------ FavoriteCity, ids
\* `${weather.city_name}-${weather.country}`
FavoriteId(city_name, country) == city_name \o "-" \o country

\* { id: favoriteId, name: weather.city_name, country: weather.country }
FavoriteOf(weather) ==
  [id |-> FavoriteId(weather.city_name, weather.country),
   name |-> weather.city_name,
   country |-> weather.country]

\* prev.some((f) => f.id === id)
SomeId(list, id) == \E i \in 1..Len(list) : list[i].id = id

\* ------------------------------------------------- localStorage and JSON
\* A stored string is a sequence of JSON tokens.  JSON.stringify of a list
\* of FavoriteCity objects writes one group of five tokens per entry.
NoItem == <<"<no item>">>          \* localStorage.getItem returns null
EmptyString == <<>>                \* the key holds ""
NullJson == <<"null">>             \* the key holds the JSON text null
Truncated == <<"[", "{", "Paris-FR">>   \* text that is not JSON

RECURSIVE StringifyItems(_)
StringifyItems(list) ==
  IF list = <<>> THEN <<>>
  ELSE <<"{", list[1].id, list[1].name, list[1].country, "}">>
       \o StringifyItems(Tail(list))

JSONstringify(list) == <<"[">> \o StringifyItems(list) \o <<"]">>

RECURSIVE ParseItems(_)
\* the entries of a token sequence made of whole groups; <<Null>> when
\* the tokens are not whole groups
ParseItems(toks) ==
  IF toks = <<>> THEN <<>>
  ELSE IF Len(toks) < 5 \/ toks[1] # "{" \/ toks[5] # "}"
          \/ toks[2] \in {"{", "}", "[", "]"}
          \/ toks[3] \in {"{", "}", "[", "]"}
          \/ toks[4] \in {"{", "}", "[", "]"}
       THEN <<Null>>
       ELSE LET rest == ParseItems(SubSeq(toks, 6, Len(toks)))
            IN IF rest = <<Null>> THEN <<Null>>
               ELSE <<[id |-> toks[2], name |-> toks[3], country |-> toks[4]]>>
                    \o rest

\* JSON.parse: [threw, isList, value]
JSONparse(text) ==
  IF text = NullJson
  THEN [threw |-> FALSE, isList |-> FALSE, value |-> <<>>]
  ELSE IF Len(text) < 2 \/ text[1] # "[" \/ text[Len(text)] # "]"
       THEN [threw |-> TRUE, isList |-> FALSE, value |-> <<>>]
       ELSE LET items == ParseItems(SubSeq(text, 2, Len(text) - 1))
            IN IF items = <<Null>>
               THEN [threw |-> TRUE, isList |-> FALSE, value |-> <<>>]
               ELSE [threw |-> FALSE, isList |-> TRUE, value |-> items]

\* ------------------------------------------------------------ useFavorites
\* useState initializer:
\*   const stored = localStorage.getItem(STORAGE_KEY);
\*   return stored ? JSON.parse(stored) : [];
useStateInit(stored) ==
  IF stored = NoItem \/ stored = EmptyString
  THEN [threw |-> FALSE, isList |-> TRUE, value |-> <<>>]
  ELSE JSONparse(stored)

\* what the key held when a hook instance read it (history only)
StoredKind(stored) ==
  IF stored = NoItem \/ stored = EmptyString THEN "missing"
  ELSE IF JSONparse(stored).threw THEN "corrupt"
  ELSE IF ~JSONparse(stored).isList THEN "notList"
  ELSE "list"

\* addFavorite without the prev.some(...) test
addFavoriteAlwaysAppends(prev, city) == Append(prev, city)

\* the updater of addFavorite
addFavorite(prev, city) ==
  IF SomeId(prev, city.id) THEN prev ELSE Append(prev, city)

\* addFavorite returns prev itself when the id is present: React sees the
\* same object, does not render again and the [favorites] effect does not run
addFavoriteChanges(prev, city) == ~SomeId(prev, city.id)

\* removeFavorite that drops the entry and everything after it
removeFavoriteTruncates(prev, id) ==
  IF \E i \in 1..Len(prev) : prev[i].id = id
  THEN SubSeq(prev, 1, (CHOOSE i \in 1..Len(prev) : prev[i].id = id) - 1)
  ELSE prev

\* the updater of removeFavorite
removeFavorite(prev, id) == SelectSeq(prev, LAMBDA f : f.id # id)

\* filter always returns a new array, so the [favorites] effect always runs
removeFavoriteChanges(prev, id) == TRUE

\* isFavorite
isFavorite(favorites, id) == SomeId(favorites, id)

\* a [favorites] effect that stores the list without its newest entry
persistEffectStale(favorites) ==
  JSONstringify(SubSeq(favorites, 1, Len(favorites) - 1))

\* the [favorites] effect: localStorage.setItem(STORAGE_KEY, JSON.stringify(favorites))
persistEffect(favorites) == JSONstringify(favorites)

\* ---------------------------------------------------------- API responses
\* a composition that leaves the state out
composeCityNameWithoutState(city) == city.name \o ", " \o city.country

\* `${city.name}, ${city.state}, ${city.country}` or `${city.name}, ${city.country}`
composeCityName(city) ==
  IF city.state # ""
  THEN city.name \o ", " \o city.state \o ", " \o city.country
  ELSE city.name \o ", " \o city.country

\* `${favorite.name}, ${favorite.country}`
favoriteCityName(favorite) == favorite.name \o ", " \o favorite.country

\* the city the backend answers for a requested city string
ResolveCity(cityStr) ==
  CHOOSE c \in Cities :
    cityStr \in {composeCityName(c), c.name \o ", " \o c.country}

\* temperatures are degrees Celsius; the model keeps them multiples of 5, for
\* which c * 9 / 5 is a whole number
Temperature(c) == IF c = Paris THEN 0 ELSE IF c = Austin THEN 100 ELSE 20

\* response.data of getCurrentWeather(city)
WeatherData(cityStr) ==
  LET c == ResolveCity(cityStr)
  IN [city_name |-> c.name, country |-> c.country,
      temperature |-> Temperature(c)]

\* response.data of getForecast(city)
ForecastData(cityStr) ==
  LET c == ResolveCity(cityStr)
  IN [city_name |-> c.name, country |-> c.country,
      forecast |-> <<[temp_min |-> Temperature(c) - 5,
                      temp_max |-> Temperature(c) + 5]>>]

\* WeatherCard: (celsius * 9) / 5 + 32
WeatherCard_convertToFahrenheit(celsius) == (celsius * 9) \div 5 + 32

\* WeatherCard.displayTemp: unit === 'F' ? convertToFahrenheit(temp) : temp
WeatherCard_displayTemp(u, temp) ==
  IF u = "F" THEN WeatherCard_convertToFahrenheit(temp) ELSE temp

\* a conversion with the factor inverted
convertToFahrenheitInverted(celsius) == (celsius * 5) \div 9 + 32

\* ForecastCard: (celsius * 9) / 5 + 32
ForecastCard_convertToFahrenheit(celsius) == (celsius * 9) \div 5 + 32

\* ForecastCard.displayTemp: unit === 'F' ? convertToFahrenheit(temp) : temp
ForecastCard_displayTemp(u, temp) ==
  IF u = "F" THEN ForecastCard_convertToFahrenheit(temp) ELSE temp

\* what a rejected API call can carry: err.response?.data?.detail, err.message
Errors ==
  {[detail |-> "City not found", message |-> "Request failed with status code 404"],
   [detail |-> Undefined, message |-> "Network Error"],
   [detail |-> "", message |-> "Network Error"],
   [detail |-> Undefined, message |-> ""]}

Truthy(s) == s \notin {Undefined, "", NullStr}

\* err.response?.data?.detail || err.message || 'Failed to fetch weather data'
errorMessage(err) ==
  IF Truthy(err.detail) THEN err.detail
  ELSE IF Truthy(err.message) THEN err.message
  ELSE DefaultError

\* response.results of searchCities
ResultLists == {<<>>, <<Austin, Paris>>}

\* the values the search input takes
Queries == {"", "a", "London", "London,"}

\* the favorites localStorage may hold when the page is opened
FavParis == [id |-> "Paris-FR", name |-> "Paris", country |-> "FR"]
FavAustin == [id |-> "Austin-US", name |-> "Austin", country |-> "US"]
StoredLists == {<<>>, <<FavAustin, FavParis>>}
InitialStorage ==
  {NoItem, EmptyString, NullJson, Truncated}
    \cup {JSONstringify(l) : l \in StoredLists}

\* ------------------------------------------------------------------ state
VARIABLES
  phase,           \* "unmounted" (page not opened), "running", "crashed"
  storage,         \* localStorage['weather-favorites']
  favApp,          \* favorites state of App's useFavorites()
  favCard,         \* favorites state of WeatherCard's useFavorites()
  favList,         \* favorites state of FavoritesList's useFavorites()
  currentWeather, forecast, loading, error,     \* App state
  unit,            \* App state: 'C' or 'F'
  fetches,         \* the cities of the fetchWeather calls awaiting Promise.all
  query, results, isOpen, isLoading,            \* SearchBar state
  timers,          \* pending setTimeout callbacks of SearchBar
  inflight,        \* the queries of the searchCities calls awaiting a response
  lastOp           \* the event handled last (history)

hookVars == <<storage, favApp, favCard, favList>>
appVars == <<currentWeather, forecast, loading, error, unit, fetches>>
searchVars == <<query, results, isOpen, isLoading, timers, inflight>>
vars == <<phase, hookVars, appVars, searchVars, lastOp>>

\* op: the handler; id: its argument; prev: the favorites list it started
\* from; writes: the localStorage.setItem calls it caused; had: weather was
\* displayed when a fetch ended; after: the query of the search response that
\* was delivered just before this search response
Op(op, id, prev, writes, had) ==
  [op |-> op, id |-> id, prev |-> prev, writes |-> writes, had |-> had,
   after |-> NullStr]

RemoveAt(s, i) == SubSeq(s, 1, i - 1) \o SubSeq(s, i + 1, Len(s))

Init ==
  /\ phase = "unmounted"
  /\ storage \in InitialStorage
  /\ favApp = <<>> /\ favCard = <<>> /\ favList = <<>>
  /\ currentWeather = Null /\ forecast = Null
  /\ loading = FALSE /\ error = NullStr
  /\ unit = "C"
  /\ fetches = <<>>
  /\ query = "" /\ results = <<>> /\ isOpen = FALSE /\ isLoading = FALSE
  /\ timers = <<>> /\ inflight = <<>>
  /\ lastOp = Op("init", "", <<>>, 0, FALSE)

\* ------------------------------------------------- mounting of the children
\* App renders its main content only when !loading; WeatherCard only when
\* currentWeather is set; FavoritesList whenever the main content is shown.
cardMounted(ph, ld, cw) == ph = "running" /\ ~ld /\ cw # Null
listMounted(ph, ld) == ph = "running" /\ ~ld

NewCard(ldNext, cwNext) ==
  cardMounted("running", ldNext, cwNext)
    /\ ~cardMounted(phase, loading, currentWeather)
NewList(ldNext) ==
  listMounted("running", ldNext) /\ ~listMounted(phase, loading)

MountWrites(ldNext, cwNext) ==
  (IF NewCard(ldNext, cwNext) THEN 1 ELSE 0) + (IF NewList(ldNext) THEN 1 ELSE 0)

\* The render that follows a change of loading / currentWeather: a child
\* that leaves the tree loses its hook state, a child that enters it runs
\* the useState initializer and then its [favorites] effect.
Remount(ldNext, cwNext) ==
  LET h == useStateInit(storage)
      mounts == NewCard(ldNext, cwNext) \/ NewList(ldNext)
  IN /\ favCard' = IF ~cardMounted("running", ldNext, cwNext) THEN <<>>
                   ELSE IF NewCard(ldNext, cwNext) THEN h.value ELSE favCard
     /\ favList' = IF ~listMounted("running", ldNext) THEN <<>>
                   ELSE IF NewList(ldNext) THEN h.value ELSE favList
     /\ storage' = IF mounts /\ ~h.threw /\ h.isList
                   THEN persistEffect(h.value) ELSE storage
     /\ phase' = IF mounts /\ (h.threw \/ ~h.isList) THEN "crashed" ELSE phase
     /\ favApp' = favApp

\* ----------------------------------------------------------------- App
\* fetchWeather up to its await: setLoading(true); setError(null); both
\* requests are issued and Promise.all awaits them
fetchWeather(city) ==
  /\ Len(fetches) < MaxFetches
  /\ loading' = TRUE
  /\ error' = NullStr
  /\ fetches' = Append(fetches, city)
  /\ UNCHANGED <<currentWeather, forecast, unit>>
  /\ Remount(TRUE, currentWeather)

\* a try branch without setForecast(forecastData)
fetchWeatherTryWeatherOnly(city) ==
  [error |-> error, currentWeather |-> WeatherData(city), forecast |-> forecast]

\* the try branch of fetchWeather after the await
fetchWeatherTry(city) ==
  [error |-> error, currentWeather |-> WeatherData(city),
   forecast |-> ForecastData(city)]

\* a catch branch that only sets the error
fetchWeatherCatchKeepsWeather(err) ==
  [error |-> errorMessage(err), currentWeather |-> currentWeather,
   forecast |-> forecast]

\* the catch branch of fetchWeather
fetchWeatherCatch(err) ==
  [error |-> errorMessage(err), currentWeather |-> Null, forecast |-> Null]

\* the page is opened: App renders (useFavorites hydrates), FavoritesList
\* renders, the effects run (FavoritesList's, then App's), and App's mount
\* effect fetches the first favorite
AppMount ==
  /\ phase = "unmounted"
  /\ LET h == useStateInit(storage)
     IN IF h.threw \/ ~h.isList
        THEN /\ phase' = "crashed"
             /\ lastOp' = Op("mount", StoredKind(storage), <<>>, 0, FALSE)
             /\ UNCHANGED <<hookVars, appVars>>
        ELSE /\ phase' = "running"
             /\ favApp' = h.value
             /\ storage' = persistEffect(h.value)
             /\ favCard' = <<>>
             /\ lastOp' = Op("mount", StoredKind(storage), <<>>, 2, FALSE)
             /\ IF Len(h.value) > 0 /\ currentWeather = Null
                THEN /\ loading' = TRUE
                     /\ error' = NullStr
                     /\ fetches' = <<favoriteCityName(h.value[1])>>
                     /\ favList' = <<>>
                     /\ UNCHANGED <<currentWeather, forecast, unit>>
                ELSE /\ favList' = h.value
                     /\ UNCHANGED appVars
  /\ UNCHANGED searchVars

\* handleCitySelect(city), the onSelectCity callback App gives to SearchBar
handleCitySelect(city) == fetchWeather(city)

\* SearchBar invokes onSelectCity for a city of its dropdown
CitySelected(c) ==
  /\ phase = "running"
  /\ c \in Cities
  /\ handleCitySelect(composeCityName(c))
  /\ lastOp' = Op("handleCitySelect", composeCityName(c), <<>>, 0, FALSE)
  /\ UNCHANGED searchVars

\* Promise.all of fetch i resolves: the try branch and finally
FetchResolves(i) ==
  /\ phase = "running"
  /\ i \in 1..Len(fetches)
  /\ LET t == fetchWeatherTry(fetches[i])
     IN /\ currentWeather' = t.currentWeather
        /\ forecast' = t.forecast
        /\ error' = t.error
        /\ loading' = FALSE
        /\ fetches' = RemoveAt(fetches, i)
        /\ Remount(FALSE, t.currentWeather)
        /\ lastOp' = Op("fetchOk", fetches[i], <<>>,
                        MountWrites(FALSE, t.currentWeather), currentWeather # Null)
  /\ UNCHANGED <<unit, searchVars>>

\* getCurrentWeather or getForecast of fetch i rejects with err: Promise.all
\* rejects, the catch branch and finally run
FetchRejects(i, err) ==
  /\ phase = "running"
  /\ i \in 1..Len(fetches)
  /\ err \in Errors
  /\ LET c == fetchWeatherCatch(err)
     IN /\ error' = c.error
        /\ currentWeather' = c.currentWeather
        /\ forecast' = c.forecast
        /\ loading' = FALSE
        /\ fetches' = RemoveAt(fetches, i)
        /\ Remount(FALSE, c.currentWeather)
        /\ lastOp' = Op("fetchFailed", fetches[i], <<>>,
                        MountWrites(FALSE, c.currentWeather), currentWeather # Null)
  /\ UNCHANGED <<unit, searchVars>>

\* the unit button of WeatherCard: onUnitToggle, setUnit(unit === 'C' ? 'F' : 'C')
onUnitToggle ==
  /\ cardMounted(phase, loading, currentWeather)
  /\ unit' = IF unit = "C" THEN "F" ELSE "C"
  /\ lastOp' = Op("onUnitToggle", unit, <<>>, 0, FALSE)
  /\ UNCHANGED <<phase, hookVars, currentWeather, forecast, loading, error,
                 fetches, searchVars>>

\* ---------------------------------------------- WeatherCard, FavoritesList
\* WeatherCard.handleFavoriteToggle, with the render and effect it causes
WeatherCardToggle ==
  /\ cardMounted(phase, loading, currentWeather)
  /\ LET favoriteId == FavoriteId(currentWeather.city_name, currentWeather.country)
         isFav == isFavorite(favCard, favoriteId)
         city == FavoriteOf(currentWeather)
         wrote == IF isFav THEN removeFavoriteChanges(favCard, favoriteId)
                  ELSE addFavoriteChanges(favCard, city)
     IN /\ favCard' = IF isFav THEN removeFavorite(favCard, favoriteId)
                      ELSE addFavorite(favCard, city)
        /\ storage' = IF wrote THEN persistEffect(favCard') ELSE storage
        /\ lastOp' = Op(IF isFav THEN "WeatherCard.removeFavorite"
                        ELSE "WeatherCard.addFavorite",
                        favoriteId, <<>>, IF wrote THEN 1 ELSE 0, FALSE)
  /\ UNCHANGED <<phase, favApp, favList, appVars, searchVars>>

\* the remove button of entry i of FavoritesList
FavoritesListRemove(i) ==
  /\ listMounted(phase, loading)
  /\ i \in 1..Len(favList)
  /\ LET id == favList[i].id
         wrote == removeFavoriteChanges(favList, id)
     IN /\ favList' = removeFavorite(favList, id)
        /\ storage' = IF wrote THEN persistEffect(favList') ELSE storage
        /\ lastOp' = Op("FavoritesList.removeFavorite", id, <<>>,
                        IF wrote THEN 1 ELSE 0, FALSE)
  /\ UNCHANGED <<phase, favApp, favCard, appVars, searchVars>>

\* the name button of entry i of FavoritesList: onSelectCity -> fetchWeather
FavoritesListSelect(i) ==
  /\ listMounted(phase, loading)
  /\ i \in 1..Len(favList)
  /\ handleCitySelect(favoriteCityName(favList[i]))
  /\ lastOp' = Op("FavoritesList.select", favoriteCityName(favList[i]), <<>>, 0,
                  FALSE)
  /\ UNCHANGED searchVars

\* ------------------------------------------------------------- SearchBar
\* A pending timer is [q, current]: q is the query its callback closed
\* over, current says that timeoutRef.current is its handle.

\* an effect that never calls clearTimeout
clearTimeoutNothing(ts) == ts

\* if (timeoutRef.current) clearTimeout(timeoutRef.current)
clearTimeoutCurrent(ts) == SelectSeq(ts, LAMBDA t : ~t.current)

\* timeoutRef.current = setTimeout(..., 300)
setTimeoutCurrent(ts, q) ==
  Append([i \in 1..Len(ts) |-> [ts[i] EXCEPT !.current = FALSE]],
         [q |-> q, current |-> TRUE])

\* a [query] effect whose length test is query.length < 1
queryEffectNoMinimum(q) ==
  LET cleared == clearTimeoutCurrent(clearTimeoutCurrent(timers))
  IN IF Len(q) < 1
     THEN [results |-> <<>>, isOpen |-> FALSE, isLoading |-> isLoading,
           timers |-> cleared]
     ELSE [results |-> results, isOpen |-> isOpen, isLoading |-> TRUE,
           timers |-> setTimeoutCurrent(cleared, q)]

\* the [query] effect for the new query q, run after the cleanup of its
\* previous run: the SearchBar state it leaves
queryEffect(q) ==
  LET cleanedUp == clearTimeoutCurrent(timers)
      cleared == clearTimeoutCurrent(cleanedUp)
  IN IF Len(q) < 2
     THEN [results |-> <<>>, isOpen |-> FALSE, isLoading |-> isLoading,
           timers |-> cleared]
     ELSE [results |-> results, isOpen |-> isOpen, isLoading |-> TRUE,
           timers |-> setTimeoutCurrent(cleared, q)]

\* an onChange whose effect cleanup also aborts the calls in flight
KeystrokeAborts(q) ==
  /\ phase = "running"
  /\ q \in Queries /\ q # query
  /\ LET e == queryEffect(q)
     IN /\ query' = q
        /\ results' = e.results
        /\ isOpen' = e.isOpen
        /\ isLoading' = e.isLoading
        /\ timers' = e.timers
  /\ inflight' = <<>>
  /\ lastOp' = Op("keystroke", q, <<>>, 0, FALSE)
  /\ UNCHANGED <<phase, hookVars, appVars>>

\* onChange: setQuery(e.target.value), then the [query] effect
Keystroke(q) ==
  /\ phase = "running"
  /\ q \in Queries /\ q # query
  /\ LET e == queryEffect(q)
     IN /\ query' = q
        /\ results' = e.results
        /\ isOpen' = e.isOpen
        /\ isLoading' = e.isLoading
        /\ timers' = e.timers
  /\ lastOp' = Op("keystroke", q, <<>>, 0, FALSE)
  /\ UNCHANGED <<phase, hookVars, appVars, inflight>>

\* a debounce timer elapses: its callback calls weatherApi.searchCities(query)
\* with the query it closed over and awaits the response
TimerFires(i) ==
  /\ phase = "running"
  /\ i \in 1..Len(timers)
  /\ Len(inflight) < MaxInFlight
  /\ inflight' = Append(inflight, timers[i].q)
  /\ timers' = RemoveAt(timers, i)
  /\ lastOp' = Op("searchCities", timers[i].q, <<>>, 0, FALSE)
  /\ UNCHANGED <<phase, hookVars, appVars, query, results, isOpen, isLoading>>

\* the state the try branch and finally of the timer callback leave
searchTry(res) ==
  [results |-> res, isOpen |-> TRUE, isLoading |-> FALSE]

\* a catch branch without setResults([])
searchCatchKeepsResults ==
  [results |-> results, isOpen |-> isOpen, isLoading |-> FALSE]

\* the state the catch branch and finally of the timer callback leave
searchCatch ==
  [results |-> <<>>, isOpen |-> isOpen, isLoading |-> FALSE]

\* searchCities call i resolves with response.results = res
SearchResolves(i, res) ==
  /\ phase = "running"
  /\ i \in 1..Len(inflight)
  /\ res \in ResultLists
  /\ results' = searchTry(res).results
  /\ isOpen' = searchTry(res).isOpen
  /\ isLoading' = searchTry(res).isLoading
  /\ inflight' = RemoveAt(inflight, i)
  /\ lastOp' = [Op("searchOk", inflight[i], <<>>, 0, FALSE) EXCEPT
                  !.after = IF lastOp.op = "searchOk" THEN lastOp.id
                            ELSE NullStr]
  /\ UNCHANGED <<phase, hookVars, appVars, query, timers>>

\* searchCities call i rejects
SearchRejects(i) ==
  /\ phase = "running"
  /\ i \in 1..Len(inflight)
  /\ results' = searchCatch.results
  /\ isOpen' = searchCatch.isOpen
  /\ isLoading' = searchCatch.isLoading
  /\ inflight' = RemoveAt(inflight, i)
  /\ lastOp' = Op("searchFailed", inflight[i], <<>>, 0, FALSE)
  /\ UNCHANGED <<phase, hookVars, appVars, query, timers>>

\* {isOpen && results.length > 0 && (...)}
dropdownShown == isOpen /\ Len(results) > 0

\* handleSelect(city) for entry i of the dropdown
HandleSelect(i) ==
  /\ phase = "running"
  /\ dropdownShown
  /\ i \in 1..Len(results)
  /\ handleCitySelect(composeCityName(results[i]))
  /\ LET e == IF query # "" THEN queryEffect("")
              ELSE [results |-> results, isOpen |-> isOpen,
                    isLoading |-> isLoading, timers |-> timers]
     IN /\ query' = ""
        /\ isOpen' = FALSE
        /\ results' = e.results
        /\ isLoading' = e.isLoading
        /\ timers' = e.timers
  /\ lastOp' = Op("handleSelect", composeCityName(results[i]), <<>>, 0, FALSE)
  /\ UNCHANGED inflight

\* handleClickOutside, for a mousedown outside the search box
ClickOutside ==
  /\ phase = "running"
  /\ isOpen
  /\ isOpen' = FALSE
  /\ lastOp' = Op("clickOutside", "", <<>>, 0, FALSE)
  /\ UNCHANGED <<phase, hookVars, appVars, query, results, isLoading, timers, inflight>>

\* ------------------------------------------------------- the application
\* App with its favorites; SearchBar is seen through the cities it selects
Next ==
  \/ AppMount
  \/ \E c \in Cities : CitySelected(c)
  \/ \E i \in 1..Len(fetches) : FetchResolves(i)
  \/ \E i \in 1..Len(fetches), err \in Errors : FetchRejects(i, err)
  \/ WeatherCardToggle
  \/ \E i \in 1..Len(favList) : FavoritesListRemove(i)
  \/ \E i \in 1..Len(favList) : FavoritesListSelect(i)

Spec == Init /\ [][Next]_vars

\* ------------------------------------------------- SearchBar inside App
\* SearchBar with the App it selects cities for; the favorites are left alone
SearchInit == Init /\ storage = NoItem

SearchNext ==
  \/ AppMount
  \/ \E q \in Queries : Keystroke(q)
  \/ \E i \in 1..Len(timers) : TimerFires(i)
  \/ \E i \in 1..Len(inflight), res \in ResultLists : SearchResolves(i, res)
  \/ \E i \in 1..Len(inflight) : SearchRejects(i)
  \/ \E i \in 1..Len(results) : HandleSelect(i)
  \/ ClickOutside
  \/ \E i \in 1..Len(fetches) : FetchResolves(i)
  \/ \E i \in 1..Len(fetches), err \in Errors : FetchRejects(i, err)

SearchSpec == SearchInit /\ [][SearchNext]_vars

\* ------------------------------------------------- the unit button of App
UnitNext ==
  \/ AppMount
  \/ \E c \in Cities : CitySelected(c)
  \/ \E i \in 1..Len(fetches) : FetchResolves(i)
  \/ \E i \in 1..Len(fetches), err \in Errors : FetchRejects(i, err)
  \/ onUnitToggle

UnitSpec == SearchInit /\ [][UnitNext]_vars

\* ------------------------------------------------- the hook on its own
\* One component that calls useFavorites() and then calls addFavorite and
\* removeFavorite with any argument; favCard is its favorites state.
FavoriteCities ==
  {FavoriteOf([city_name |-> "Paris", country |-> "FR"]),
   FavoriteOf([city_name |-> "Austin", country |-> "US"]),
   FavoriteOf([city_name |-> "Port-au-Prince", country |-> "HT"]),
   FavoriteOf([city_name |-> "Port-au", country |-> "Prince-HT"])}

FavoriteIds == {c.id : c \in FavoriteCities}

\* the first render of the component and its [favorites] effect
UseFavorites ==
  /\ phase = "unmounted"
  /\ LET h == useStateInit(storage)
     IN IF h.threw \/ ~h.isList
        THEN /\ phase' = "crashed"
             /\ lastOp' = Op("useFavorites", StoredKind(storage), <<>>, 0, FALSE)
             /\ UNCHANGED <<storage, favCard>>
        ELSE /\ phase' = "hook"
             /\ favCard' = h.value
             /\ storage' = persistEffect(h.value)
             /\ lastOp' = Op("useFavorites", StoredKind(storage), <<>>, 1, FALSE)
  /\ UNCHANGED <<favApp, favList, appVars, searchVars>>

\* addFavorite(city), with the render and effect it causes
CallAddFavorite(city) ==
  /\ phase = "hook"
  /\ city \in FavoriteCities
  /\ favCard' = addFavorite(favCard, city)
  /\ storage' = IF addFavoriteChanges(favCard, city)
                THEN persistEffect(favCard') ELSE storage
  /\ lastOp' = Op("addFavorite", city.id, favCard,
                  IF addFavoriteChanges(favCard, city) THEN 1 ELSE 0, FALSE)
  /\ UNCHANGED <<phase, favApp, favList, appVars, searchVars>>

\* removeFavorite(id), with the render and effect it causes
CallRemoveFavorite(id) ==
  /\ phase = "hook"
  /\ id \in FavoriteIds
  /\ favCard' = removeFavorite(favCard, id)
  /\ storage' = IF removeFavoriteChanges(favCard, id)
                THEN persistEffect(favCard') ELSE storage
  /\ lastOp' = Op("removeFavorite", id, favCard,
                  IF removeFavoriteChanges(favCard, id) THEN 1 ELSE 0, FALSE)
  /\ UNCHANGED <<phase, favApp, favList, appVars, searchVars>>

HookNext ==
  \/ UseFavorites
  \/ \E city \in FavoriteCities : CallAddFavorite(city)
  \/ \E id \in FavoriteIds : CallRemoveFavorite(id)

HookSpec == Init /\ [][HookNext]_vars

\* ================================================================ claims
NoSharedId(list) ==
  \A i, j \in 1..Len(list) : i # j => list[i].id # list[j].id

\* the list the stored text deserializes to
Stored(text) == useStateInit(text).value
StoredIds(text) == {Stored(text)[i].id : i \in 1..Len(Stored(text))}

IsFavoriteOp(op) ==
  op \in {"WeatherCard.addFavorite", "WeatherCard.removeFavorite",
          "FavoritesList.removeFavorite"}

\* C1: in the application, an add or remove of one id, made through
\* WeatherCard or FavoritesList, never makes a persisted favorite with a
\* different id disappear from localStorage.
C1_PersistedFavoriteStays ==
  [][IsFavoriteOp(lastOp'.op) =>
       \A id \in StoredIds(storage) :
         id # lastOp'.id => id \in StoredIds(storage')]_vars

\* C2: after any sequence of addFavorite / removeFavorite calls no two
\* entries of the list, nor of the stored list, share an id, and an
\* addFavorite whose id is already in the list leaves the list as it was.
C2_UniqueIds ==
  /\ NoSharedId(favCard)
  /\ phase = "hook" => NoSharedId(Stored(storage))
  /\ (lastOp.op = "addFavorite" /\ lastOp.id \in {f.id : f \in {lastOp.prev[i] : i \in 1..Len(lastOp.prev)}})
       => favCard = lastOp.prev

\* the same city was added a second time to a list of two
C2_Witness ==
  /\ lastOp.op = "addFavorite"
  /\ Len(lastOp.prev) = 2
  /\ lastOp.prev[1].id = lastOp.id
  /\ Len(favCard) = 2

\* C3: when the stored value is missing or is not a deserializable list,
\* opening the page yields the empty favorites list and no error.
C3_HydrationFailsSoft ==
  (lastOp.op = "mount" /\ lastOp.id \in {"missing", "corrupt", "notList"})
    => (phase = "running" /\ favApp = <<>>)

\* C4 as stated: every addFavorite and every removeFavorite causes exactly
\* one storage write, after which the stored value deserializes to the list
\* the hook holds.
C4_OneWritePerCall ==
  lastOp.op \in {"addFavorite", "removeFavorite"}
    => (lastOp.writes = 1 /\ Stored(storage) = favCard)

\* C4 amended: every removeFavorite, and every addFavorite of an id that is
\* not in the list, causes exactly one storage write, after which the stored
\* value deserializes to the full list the hook holds, in order; an
\* addFavorite of an id already in the list causes no storage write.
C4_WritePerChange ==
  LET present == \E i \in 1..Len(lastOp.prev) : lastOp.prev[i].id = lastOp.id
  IN /\ (lastOp.op = "removeFavorite" \/ (lastOp.op = "addFavorite" /\ ~present))
          => (lastOp.writes = 1 /\ Stored(storage) = favCard
                /\ useStateInit(storage).isList /\ ~useStateInit(storage).threw)
     /\ (lastOp.op = "addFavorite" /\ present) => lastOp.writes = 0

\* a third city was added and written
C4_Witness ==
  /\ lastOp.op = "addFavorite"
  /\ lastOp.writes = 1
  /\ Len(lastOp.prev) = 2
  /\ Len(favCard) = 3

\* C5: removeFavorite(id) leaves exactly the entries whose id differs from
\* id, in the order they had; when no entry has the id the list is unchanged.
C5_RemoveExactlyOne ==
  lastOp.op = "removeFavorite" =>
    LET p == lastOp.prev
        kept == {i \in 1..Len(p) : p[i].id # lastOp.id}
        nth(k) == CHOOSE i \in kept : Cardinality({j \in kept : j < i}) = k - 1
    IN /\ Len(favCard) = Cardinality(kept)
       /\ \A k \in 1..Len(favCard) : favCard[k] = p[nth(k)]
       /\ (kept = 1..Len(p)) => favCard = p

\* the middle entry of a list of three was removed
C5_Witness ==
  /\ lastOp.op = "removeFavorite"
  /\ Len(lastOp.prev) = 3
  /\ lastOp.prev[2].id = lastOp.id
  /\ favCard = <<lastOp.prev[1], lastOp.prev[3]>>

\* C6: no searchCities call is ever pending or issued for a query shorter
\* than 2 characters, and no timer is pending and no call is issued while
\* the query is shorter than 2 characters.
C6_NoShortSearch ==
  /\ \A i \in 1..Len(inflight) : Len(inflight[i]) >= 2
  /\ \A i \in 1..Len(timers) : Len(timers[i].q) >= 2
  /\ lastOp.op = "searchCities" => (Len(lastOp.id) >= 2 /\ Len(query) >= 2)
  /\ Len(query) < 2 => timers = <<>>

\* "a" was typed first and nothing was scheduled or sent
C6_Witness ==
  /\ query = "a"
  /\ lastOp = Op("keystroke", "a", <<>>, 0, FALSE)
  /\ timers = <<>>
  /\ inflight = <<>>
  /\ ~isLoading

\* C7: at most one debounce timer is pending, it is the one timeoutRef holds
\* and it carries the current query; a keystroke that leaves a query of
\* length >= 2 leaves exactly that timer; the call a timer issues carries
\* the current query and leaves no timer behind, so a burst of keystrokes
\* leads to one call, for the last query.
C7_OneTimerLatestQuery ==
  /\ Len(timers) <= 1
  /\ \A i \in 1..Len(timers) : timers[i].q = query /\ timers[i].current
  /\ (lastOp.op = "keystroke" /\ Len(query) >= 2)
       => timers = <<[q |-> query, current |-> TRUE]>>
  /\ lastOp.op = "searchCities" => (lastOp.id = query /\ timers = <<>>)

\* the only call in flight is the one for "London,"
C7_Witness ==
  /\ lastOp.op = "searchCities"
  /\ lastOp.id = "London,"
  /\ query = "London,"
  /\ inflight = <<"London,">>

\* C8: while the query is shorter than 2 characters the results are empty,
\* the dropdown is closed and no timer is pending.
C8_ShortQueryStaysIdle ==
  Len(query) < 2 => (results = <<>> /\ ~isOpen /\ timers = <<>>)

\* C9: a failed searchCities call leaves the results empty and the dropdown
\* not shown, and changes nothing of App: error, weather, forecast, loading
\* and the fetches (so onSelectCity was not called).
C9_SearchFailureSwallowed ==
  [][(\E i \in 1..Len(inflight) : SearchRejects(i)) =>
       /\ results' = <<>>
       /\ ~(isOpen' /\ Len(results') > 0)
       /\ UNCHANGED <<error, currentWeather, forecast, loading, fetches>>]_vars

\* a search failed while the dropdown was open and weather was displayed
C9_Witness ==
  /\ lastOp.op = "searchFailed"
  /\ isOpen
  /\ results = <<>>
  /\ currentWeather # Null
  /\ error = NullStr

\* err.response.data.detail when present, else err.message, else the default
ExpectedMessage(err) ==
  IF err.detail \notin {Undefined, ""} THEN err.detail
  ELSE IF err.message \notin {Undefined, ""} THEN err.message
  ELSE "Failed to fetch weather data"

\* C10: a fetchWeather whose request rejects ends with a non-empty error
\* string (the detail, else the message, else the default) and with
\* currentWeather and forecast null.
C10_FailedFetchClears ==
  [][\A i \in 1..Len(fetches), err \in Errors :
       FetchRejects(i, err) =>
         /\ error' = ExpectedMessage(err)
         /\ error' \notin {"", NullStr, Undefined}
         /\ currentWeather' = Null
         /\ forecast' = Null]_vars

\* a fetch failed while weather was displayed, with neither detail nor message
C10_Witness ==
  /\ lastOp.op = "fetchFailed"
  /\ lastOp.had
  /\ error = DefaultError
  /\ currentWeather = Null
  /\ forecast = Null

\* what WeatherCard shows for a temperature of currentWeather
ShownByCard(temp) == WeatherCard_displayTemp(unit, temp)

\* what ForecastCard shows for a temperature of a forecast item
ShownByForecast(temp) == ForecastCard_displayTemp(unit, temp)

\* d is the Fahrenheit value of c degrees Celsius: d = c * 9 / 5 + 32
IsFahrenheitOf(d, c) ==
  /\ 5 * (d - 32) = 9 * c
  /\ c = 0 => d = 32
  /\ c = 100 => d = 212

ShowsRight(d, temp) ==
  /\ unit = "C" => d = temp
  /\ unit = "F" => IsFahrenheitOf(d, temp)

C11_DisplayedTemperatures ==
  cardMounted(phase, loading, currentWeather) =>
    /\ ShowsRight(ShownByCard(currentWeather.temperature),
                  currentWeather.temperature)
    /\ \A k \in 1..Len(forecast.forecast) :
         /\ ShowsRight(ShownByForecast(forecast.forecast[k].temp_min),
                       forecast.forecast[k].temp_min)
         /\ ShowsRight(ShownByForecast(forecast.forecast[k].temp_max),
                       forecast.forecast[k].temp_max)

\* C11: with unit 'C' WeatherCard and ForecastCard show the temperature as
\* it is, with unit 'F' they show c * 9 / 5 + 32 (32 for 0, 212 for 100); the
\* unit button turns C into F and F into C and leaves currentWeather and
\* forecast as they are.
C11_UnitConversion ==
  /\ []C11_DisplayedTemperatures
  /\ [][onUnitToggle =>
         /\ unit' # unit
         /\ {unit, unit'} = {"C", "F"}
         /\ UNCHANGED <<currentWeather, forecast>>]_vars

\* the unit was switched to F while 100 degrees Celsius were displayed
C11_Witness ==
  /\ lastOp.op = "onUnitToggle"
  /\ lastOp.id = "C"
  /\ unit = "F"
  /\ cardMounted(phase, loading, currentWeather)
  /\ currentWeather.temperature = 100
  /\ ShownByCard(currentWeather.temperature) = 212
  /\ ShownByForecast(forecast.forecast[1].temp_min) = 203

\* C12: a searchCities call in flight is never cancelled: no change of the
\* query removes it, and its response, whenever it arrives and whatever the
\* query is by then, becomes the displayed results and opens the dropdown.
C12_StaleSearchNotCancelled ==
  [][/\ query' # query => inflight' = inflight
     /\ lastOp'.op = "searchOk" =>
          \A i \in 1..Len(inflight), res \in ResultLists :
            SearchResolves(i, res) => results' = res /\ isOpen']_vars

\* searchCities was issued for "London" and then for "London,"; the response
\* for "London," was delivered, the response for "London" right after it, and
\* the dropdown shows the latter's results while the query is "London,"
C12_Witness ==
  /\ lastOp.op = "searchOk"
  /\ lastOp.id = "London"
  /\ lastOp.after = "London,"
  /\ query = "London,"
  /\ results = <<Austin, Paris>>
  /\ dropdownShown
  /\ timers = <<>>
  /\ inflight = <<>>

\* "name, state, country" for a city with a state, else "name, country"
SelectionString(city) ==
  IF city.state # "" THEN city.name \o ", " \o city.state \o ", " \o city.country
  ELSE city.name \o ", " \o city.country

\* C13: selecting entry i of the dropdown calls onSelectCity once, with
\* "name, state, country" or "name, country", leaves the query empty and the
\* dropdown closed, leaves no debounce timer pending and issues no search call.
C13_SelectCallsBackAndClears ==
  [][lastOp'.op = "handleSelect" =>
       \A i \in 1..Len(results) :
         HandleSelect(i) =>
           /\ fetches' = Append(fetches, SelectionString(results[i]))
           /\ query' = ""
           /\ ~isOpen'
           /\ ~dropdownShown'
           /\ timers' = <<>>
           /\ inflight' = inflight]_vars

\* a city without a state was selected, and then a city with a state while
\* a debounce timer was pending
C13_Witness ==
  /\ lastOp.op = "handleSelect"
  /\ lastOp.id = "Austin, TX, US"
  /\ fetches = <<"Paris, FR", "Austin, TX, US">>
  /\ query = ""
  /\ ~isOpen
  /\ isLoading
  /\ timers = <<>>

\* C14: right after WeatherCard added or removed a favorite, the lists of
\* FavoritesList and of App equal the list of WeatherCard and the list
\* persisted in localStorage.
C14_OneSharedList ==
  lastOp.op \in {"WeatherCard.addFavorite", "WeatherCard.removeFavorite"} =>
    /\ favList = favCard
    /\ favApp = favCard
    /\ Stored(storage) = favCard

\* C15: isLoading is true only while a debounce timer is pending or a
\* searchCities call is in flight; with neither, isLoading is false.
C15_LoadingOnlyWhileSearching ==
  isLoading => (timers # <<>> \/ inflight # <<>>)

\* C16: an error and weather data are never held together: when error is
\* set, currentWeather and forecast are null.
C16_ErrorExcludesWeather ==
  error # NullStr => (currentWeather = Null /\ forecast = Null)

\* C17: currentWeather and forecast are null together or set together, and
\* when set they are the answers for one city: the city of the fetchWeather
\* call that set them.
C17_WeatherAndForecastTogether ==
  /\ currentWeather = Null <=> forecast = Null
  /\ currentWeather # Null =>
       /\ forecast.city_name = currentWeather.city_name
       /\ forecast.country = currentWeather.country
  /\ lastOp.op = "fetchOk" =>
       /\ currentWeather # Null /\ forecast # Null
       /\ currentWeather.city_name = ResolveCity(lastOp.id).name
       /\ forecast.city_name = ResolveCity(lastOp.id).name

\* of two overlapping fetches one failed and then the other succeeded
C17_Witness ==
  /\ lastOp.op = "fetchOk"
  /\ error # NullStr
  /\ currentWeather # Null
  /\ forecast # Null
  /\ forecast.city_name = currentWeather.city_name
====
